---- MODULE Spec2Model ----
(***************************************************************************)
(* Model of the RK73H template-automation scripts.                         *)
(*                                                                         *)
(* A Python str is modelled as a sequence of one-character strings, so     *)
(* that upper(), re.sub(), startswith(), slicing and split() are computed  *)
(* character by character.  A cell of a DataFrame is a TLA+ string; a str  *)
(* written into a cell is packed with Join.  NaN (an empty spreadsheet     *)
(* cell) and None are distinguished cell values.                           *)
(***************************************************************************)
EXTENDS Integers, Sequences, FiniteSets, TLC

VARIABLES
    prog,               \* which script is running
    pc,                 \* position in that script's batch loop
    i,                  \* 1-based index of the next part number to process
    part_numbers_list,  \* rk73h_datasheet_generator: the batch input
    template,           \* data_provider.template / the template frame
    all_results,        \* list of frames accumulated by the batch loop
    final_result,       \* frame returned by the batch function
    decoded,            \* decode_part_number's result for the last part
    parameter_values,   \* attribute set built for the last part
    part_numbers,       \* the batch input; pdf_extractor: the list built
    full_data,          \* the reference table (RK73H_Full_Data.xlsx)
    test_template,      \* selective_processor: the template frame
    output_frames,      \* selective_processor: list of filled frames
    final_output,       \* selective_processor: the returned frame
    row,                \* selective_processor: rows matched for the last part
    output_file,        \* simple_part_filler: the value returned
    text,               \* the extractors: the text searched
    rule,               \* the extractors: 1-based index of the pattern applied
    pos,                \* the extractors: where re.findall resumes its scan
    specs,              \* the extractors: the list built so far
    spans               \* span and pattern of every match found so far

vars == <<prog, pc, i, part_numbers_list, template, all_results, final_result,
          decoded, parameter_values, part_numbers, full_data, test_template,
          output_frames, final_output, row, output_file, text, rule, pos,
          specs, spans>>

genVars == <<part_numbers_list, template, all_results, final_result,
             decoded, parameter_values>>

selVars == <<part_numbers, full_data, test_template, output_frames,
             final_output, row>>

extVars == <<text, rule, pos, specs, spans>>

-----------------------------------------------------------------------------
(* Bounds of the model *)

MaxParts == 2

-----------------------------------------------------------------------------
(* Cell values that are not text *)

NaN == "NaN"
None == "None"
NotRun == "<not run>"

\* the extractors' variables while another script runs
ExtIdle ==
    /\ text = <<>>
    /\ rule = 0
    /\ pos = 0
    /\ specs = <<>>
    /\ spans = <<>>

-----------------------------------------------------------------------------
(* Python str operations on sequences of characters *)

RECURSIVE Join(_)
Join(s) == IF s = <<>> THEN "" ELSE Head(s) \o Join(Tail(s))

LowerLetters == <<"a","b","c","d","e","f","g","h","i","j","k","l","m",
                  "n","o","p","q","r","s","t","u","v","w","x","y","z">>

UpperLetters == <<"A","B","C","D","E","F","G","H","I","J","K","L","M",
                  "N","O","P","Q","R","S","T","U","V","W","X","Y","Z">>

UpperChar(c) ==
    IF \E k \in 1..Len(LowerLetters) : LowerLetters[k] = c
    THEN UpperLetters[CHOOSE k \in 1..Len(LowerLetters) : LowerLetters[k] = c]
    ELSE c

LowerChar(c) ==
    IF \E k \in 1..Len(UpperLetters) : UpperLetters[k] = c
    THEN LowerLetters[CHOOSE k \in 1..Len(UpperLetters) : UpperLetters[k] = c]
    ELSE c

upper(s) == [k \in 1..Len(s) |-> UpperChar(s[k])]

lower(s) == [k \in 1..Len(s) |-> LowerChar(s[k])]

Whitespace == {" ", "\t", "\n"}

IsSpace(c) == c \in Whitespace

\* re.sub(r'\s+', '', s): every whitespace run is deleted
RECURSIVE re_sub_ws_delete(_)
re_sub_ws_delete(s) ==
    IF s = <<>> THEN <<>>
    ELSE IF IsSpace(Head(s)) THEN re_sub_ws_delete(Tail(s))
    ELSE <<Head(s)>> \o re_sub_ws_delete(Tail(s))

startswith(s, p) == Len(s) >= Len(p) /\ SubSeq(s, 1, Len(p)) = p

\* s[a:b] with 0-based a and exclusive b, clipped to the string as Python does
Slice(s, a, b) == SubSeq(s, a + 1, IF b > Len(s) THEN Len(s) ELSE b)

\* str.split(): the maximal runs of non-whitespace characters, in order
RECURSIVE SplitFrom(_, _)
SplitFrom(s, cur) ==
    IF s = <<>> THEN (IF cur = <<>> THEN <<>> ELSE <<cur>>)
    ELSE IF IsSpace(Head(s))
         THEN (IF cur = <<>> THEN <<>> ELSE <<cur>>) \o SplitFrom(Tail(s), <<>>)
         ELSE SplitFrom(Tail(s), Append(cur, Head(s)))

split(s) == SplitFrom(s, <<>>)

-----------------------------------------------------------------------------
(* rk73h_datasheet_generator.py: RK73HDataProvider *)

resistance_codes ==
    [c \in {"1001", "1002", "1003", "4731", "1000", "1500"} |->
        CASE c = "1001" -> "1kΩ"
          [] c = "1002" -> "10kΩ"
          [] c = "1003" -> "100kΩ"
          [] c = "4731" -> "4.73kΩ"
          [] c = "1000" -> "100Ω"
          [] c = "1500" -> "150Ω"]

extracted_data ==
    [series |-> "RK73H",
     technology |-> "Thick Film",
     operating_temp |-> "-55°C to +155°C",
     termination |-> "Cu/Ni/Sn",
     packaging |-> "Tape & Reel",
     automotive_qualified |-> "AEC-Q200",
     resistance_codes |-> resistance_codes]

TemplateRow(p, u, v) == [parameter |-> p, unit |-> u, value |-> v]

create_default_template ==
    << TemplateRow("Specifications", "", ""),
       TemplateRow("Resistance", "[Ohm]", ""),
       TemplateRow("Maximum Working Voltage", "[V dc]", ""),
       TemplateRow("Tolerance", "[± %]", ""),
       TemplateRow("Operating Temperature", "[degC]", ""),  \* the source's unit is the single character U+2103
       TemplateRow("Package Size", "[EIA]", ""),
       TemplateRow("Rated Power per Element", "[W]", ""),
       TemplateRow("Temperature Coefficient", "[± ppm/K]", ""),
       TemplateRow("Lead Finish", "", ""),
       TemplateRow("Technology", "", ""),
       TemplateRow("Series", "", ""),
       TemplateRow("Automotive Qualified", "", ""),
       TemplateRow("Environmental Compliance", "", ""),
       TemplateRow("Packaging Type", "", "") >>

\* Contents test1.xlsx may have: empty cells are NaN, a parameter may be blank
\* or a name no script maps
LoadedTemplates ==
    { << TemplateRow("Resistance", "[Ohm]", NaN),
         TemplateRow(NaN, NaN, NaN),
         TemplateRow("Weight", "[g]", NaN),
         TemplateRow("Package Size", "[EIA]", NaN) >>,
      << TemplateRow("Tolerance", "[± %]", NaN) >> }

\* load_template: test1.xlsx if it can be read, the default template otherwise
load_template == LoadedTemplates \cup {create_default_template}

-----------------------------------------------------------------------------
(* rk73h_datasheet_generator.py: decode_part_number *)

SeriesPrefix == <<"R","K","7","3","H">>

\* (mutation) the part number is not uppercased
clean_part_keeps_case(part_number) == re_sub_ws_delete(part_number)

\* clean_part = re.sub(r'\s+', '', part_number.upper())
clean_part(part_number) == re_sub_ws_delete(upper(part_number))

\* parts = clean_part.split()
parts_of(cp) == split(cp)

\* if len(clean_part) > 7
HasSizeCode(cp) == Len(cp) > 7

decode_part_number(part_number) ==
    LET cp == clean_part(part_number)
        parts == parts_of(cp)
        d0 == [series |-> "RK73H", size_code |-> "", resistance_code |-> "",
               tolerance_code |-> "", termination_code |-> "",
               packaging_code |-> ""]
        d1 == IF HasSizeCode(cp)
              THEN [d0 EXCEPT !.size_code = Join(Slice(cp, 5, 7))]
              ELSE d0
        d2 == IF Len(parts) >= 4
              THEN [d1 EXCEPT !.resistance_code = Join(parts[3]),
                              !.tolerance_code = parts[4][1]]
              ELSE d1
    IN IF startswith(cp, SeriesPrefix) THEN d2 ELSE d0

-----------------------------------------------------------------------------
(* rk73h_datasheet_generator.py: fill_template_with_part_data *)

SizeCodes == {"1E", "1J", "2A", "2B", "2F", "3A", "3B", "3C"}

size_mapping ==
    [c \in SizeCodes |->
        CASE c = "1E" -> <<"0402", "0.063W">>
          [] c = "1J" -> <<"0603", "0.1W">>
          [] c = "2A" -> <<"0805", "0.125W">>
          [] c = "2B" -> <<"1206", "0.25W">>
          [] c = "2F" -> <<"1210", "0.5W">>
          [] c = "3A" -> <<"1812", "0.75W">>
          [] c = "3B" -> <<"2010", "0.75W">>
          [] c = "3C" -> <<"2512", "1W">>]

\* package_size, power_rating = size_mapping[size_code], both '' otherwise
package_size(size_code) ==
    IF size_code \in DOMAIN size_mapping THEN size_mapping[size_code][1] ELSE ""

power_rating(size_code) ==
    IF size_code \in DOMAIN size_mapping THEN size_mapping[size_code][2] ELSE ""

\* (mutation) .get(resistance_code) without the default: None for a missing code
resistance_value_no_default(resistance_code) ==
    IF resistance_code \in DOMAIN extracted_data.resistance_codes
    THEN extracted_data.resistance_codes[resistance_code]
    ELSE None

\* extracted_data['resistance_codes'].get(resistance_code, 'See datasheet')
resistance_value(resistance_code) ==
    IF resistance_code \in DOMAIN extracted_data.resistance_codes
    THEN extracted_data.resistance_codes[resistance_code]
    ELSE "See datasheet"

ParameterNames ==
    {"Specifications", "Resistance", "Maximum Working Voltage", "Tolerance",
     "Operating Temperature", "Package Size", "Rated Power per Element",
     "Temperature Coefficient", "Lead Finish", "Technology", "Series",
     "Automotive Qualified", "Environmental Compliance", "Packaging Type"}

\* the dict parameter_values built for one part
build_parameter_values(part_number, dec) ==
    [p \in ParameterNames |->
        CASE p = "Specifications" -> Join(part_number)
          [] p = "Resistance" -> resistance_value(dec.resistance_code)
          [] p = "Maximum Working Voltage" -> "50V"
          [] p = "Tolerance" -> "±1%"
          [] p = "Operating Temperature" -> extracted_data.operating_temp
          [] p = "Package Size" -> package_size(dec.size_code)
          [] p = "Rated Power per Element" -> power_rating(dec.size_code)
          [] p = "Temperature Coefficient" -> "±200 ppm/°C"
          [] p = "Lead Finish" -> extracted_data.termination
          [] p = "Technology" -> extracted_data.technology
          [] p = "Series" -> extracted_data.series
          [] p = "Automotive Qualified" -> extracted_data.automotive_qualified
          [] p = "Environmental Compliance" -> "Halogen-Free"
          [] p = "Packaging Type" -> extracted_data.packaging]

\* (mutation) rows whose parameter has no value to write are dropped
apply_values_drops_unmapped(tpl, pv) ==
    LET IsMapped(r) == r.parameter # NaN /\ r.parameter \in DOMAIN pv
        kept == SelectSeq(tpl, IsMapped)
    IN [k \in 1..Len(kept) |-> [kept[k] EXCEPT !.value = pv[kept[k].parameter]]]

\* for idx, param in template['parameter'].items():
\*     if pd.notna(param) and param in parameter_values: template.at[idx,'value'] = ...
apply_values(tpl, pv) ==
    [k \in 1..Len(tpl) |->
        IF tpl[k].parameter # NaN /\ tpl[k].parameter \in DOMAIN pv
        THEN [tpl[k] EXCEPT !.value = pv[tpl[k].parameter]]
        ELSE tpl[k]]

fill_template_with_part_data(part_number, tpl) ==
    apply_values(tpl, build_parameter_values(part_number,
                                             decode_part_number(part_number)))

\* (mutation) the fill writes into data_provider.template itself
provider_template_without_copy(part_number, tpl) ==
    fill_template_with_part_data(part_number, tpl)

\* template = data_provider.template.copy(): the values are written to the
\* copy, so the provider's frame is after the fill what it was before
provider_template_after_fill(part_number, tpl) == tpl

-----------------------------------------------------------------------------
(* rk73h_datasheet_generator.py: process_multiple_parts *)

\* filled_template.insert(0, 'Part_Number', part_number)
insert_Part_Number(frame, part_number) ==
    [k \in 1..Len(frame) |->
        [Part_Number |-> Join(part_number), parameter |-> frame[k].parameter,
         unit |-> frame[k].unit, value |-> frame[k].value]]

separator ==
    << [Part_Number |-> "", parameter |-> "--- Next Part ---",
        unit |-> "", value |-> ""] >>

\* (mutation) the separator is added before every part, the first included
needs_separator_always(results) == Len(results) >= 0

\* if len(all_results) > 0
needs_separator(results) == Len(results) > 0

\* pd.concat(frames, ignore_index=True)
RECURSIVE concat(_)
concat(frames) ==
    IF frames = <<>> THEN <<>> ELSE Head(frames) \o concat(Tail(frames))

\* Part numbers the batch is given: series-and-size tokens alone, and
\* followed by packaging, resistance and tolerance tokens
RK73H2B == <<"R","K","7","3","H","2","B">>

Heads ==
    { RK73H2B,
      <<"R","K","7","3","H","9","Z">>,
      <<"R","K","7","3","H","2">>,
      <<"R","K","7","3","H">>,
      <<"X","Y","Z","1","2","3">> }

TD_1003_FT == <<" ","T","D"," ","1","0","0","3"," ","F","T">>

TD_4731_DT == <<" ","T","D"," ","4","7","3","1"," ","D","T">>

Tails ==
    { TD_1003_FT,
      TD_4731_DT,
      <<" ","T","D"," ","1","0","3"," ","F","T">>,
      <<" ","T","D"," ","1","A","0","3"," ","F","T">>,
      <<" ","T","D"," ","1","2"," ","F","T">> }

PartNumbers ==
    Heads
    \cup { RK73H2B \o t : t \in Tails }
    \cup { <<"r","k","7","3","h","2","b">>
               \o <<" "," ","t","d","\t","1","0","0","3"," "," ","f","t">>,
           <<"R","K","7","3","H","9","Z">> \o TD_4731_DT,
           <<"X","Y","Z","1","2","3">> \o TD_1003_FT }

RECURSIVE ListsUpTo(_, _)
ListsUpTo(S, n) ==
    IF n = 0 THEN { <<>> }
    ELSE LET shorter == ListsUpTo(S, n - 1)
         IN shorter \cup { Append(l, x) : l \in { m \in shorter : Len(m) = n - 1 }, x \in S }

GenInit ==
    /\ prog = "rk73h_datasheet_generator"
    /\ pc = "start"
    /\ i = 1
    /\ part_numbers_list \in ListsUpTo(PartNumbers, MaxParts)
    /\ template = NotRun
    /\ all_results = <<>>
    /\ final_result = NotRun
    /\ decoded = NotRun
    /\ parameter_values = NotRun
    /\ part_numbers = <<>>
    /\ full_data = <<>>
    /\ test_template = <<>>
    /\ output_frames = <<>>
    /\ final_output = NotRun
    /\ row = <<>>
    /\ output_file = NotRun
    /\ ExtIdle

\* data_provider = RK73HDataProvider()
GenCreateProvider ==
    /\ prog = "rk73h_datasheet_generator"
    /\ pc = "start"
    /\ template' \in load_template
    /\ pc' = "loop"
    /\ UNCHANGED <<prog, i, part_numbers_list, all_results, final_result,
                   decoded, parameter_values>>
    /\ UNCHANGED selVars
    /\ UNCHANGED <<extVars, output_file>>

\* one iteration of: for i, part_number in enumerate(part_numbers_list, 1)
GenProcessPart ==
    /\ prog = "rk73h_datasheet_generator"
    /\ pc = "loop"
    /\ i <= Len(part_numbers_list)
    /\ LET part_number == part_numbers_list[i]
           filled_template ==
               insert_Part_Number(
                   fill_template_with_part_data(part_number, template),
                   part_number)
       IN /\ decoded' = decode_part_number(part_number)
          /\ parameter_values' =
                 build_parameter_values(part_number,
                                        decode_part_number(part_number))
          /\ all_results' =
                 IF needs_separator(all_results)
                 THEN all_results \o <<separator, filled_template>>
                 ELSE all_results \o <<filled_template>>
    /\ template' = provider_template_after_fill(part_numbers_list[i], template)
    /\ i' = i + 1
    /\ UNCHANGED <<prog, pc, part_numbers_list, final_result>>
    /\ UNCHANGED selVars
    /\ UNCHANGED <<extVars, output_file>>

\* if all_results: pd.concat(...) else pd.DataFrame()
GenCombine ==
    /\ prog = "rk73h_datasheet_generator"
    /\ pc = "loop"
    /\ i > Len(part_numbers_list)
    /\ final_result' = concat(all_results)
    /\ pc' = "done"
    /\ UNCHANGED <<prog, i, part_numbers_list, template, all_results,
                   decoded, parameter_values>>
    /\ UNCHANGED selVars
    /\ UNCHANGED <<extVars, output_file>>

GenNext == GenCreateProvider \/ GenProcessPart \/ GenCombine

SpecGen == GenInit /\ [][GenNext]_vars

-----------------------------------------------------------------------------
(* selective_processor.py: get_selected_part_specs *)

MaxRows == 2

REQUIRED_PARAMETERS ==
    [p \in {"Resistance", "Maximum Working Voltage", "Tolerance",
            "Package Size", "Rated Power per Element"} |->
        CASE p = "Resistance" -> "Resistance"
          [] p = "Maximum Working Voltage" -> "Max Working Voltage (V)"
          [] p = "Tolerance" -> "Tolerance (%)"
          [] p = "Package Size" -> "EIA Code"
          [] p = "Rated Power per Element" -> "Power Rating (W)"]

\* Columns RK73H_Full_Data.xlsx may have; a sheet may lack "EIA Code"
FullDataColumns ==
    {"Part Number", "Resistance", "Max Working Voltage (V)", "Tolerance (%)",
     "EIA Code", "Power Rating (W)"}

\* An empty Part Number cell: no character sequence equals or contains it
NaNPartNumber == <<NaN>>

\* Part Number cells of the reference table
ReferenceKeys ==
    { RK73H2B,
      RK73H2B \o <<" ","T","D">>,
      <<"r","k","7","3","h","2","b">>,
      NaNPartNumber }

\* Part numbers asked of the reference table
QueriedParts ==
    { RK73H2B, <<"R","K","7","3","H">>, <<"X","Y","Z">>,
      <<"R","K","7","3","H","(">> }

\* A sheet with the given Part Number column; every other cell names its
\* column and its row, so that the row a value came from can be told
ReferenceTable(keys, columns) ==
    [k \in 1..Len(keys) |->
        [c \in columns |->
            IF c = "Part Number" THEN keys[k]
            ELSE c \o " of row " \o ToString(k)]]

\* sheets with every column, and one-row sheets that lack "EIA Code"
ReferenceTables ==
    { ReferenceTable(keys, FullDataColumns) :
          keys \in ListsUpTo(ReferenceKeys, MaxRows) }
    \cup { ReferenceTable(<<key>>, FullDataColumns \ {"EIA Code"}) :
              key \in ReferenceKeys }

\* full_data[full_data['Part Number'] == part]: the rows that satisfy the
\* test, in table order
exact_rows(data, part) ==
    LET IsExact(r) == r["Part Number"] = part
    IN SelectSeq(data, IsExact)

\* Series.str.contains(part, case=False, na=False), for a part whose
\* pattern compiles and is made of letters, digits and spaces (a literal)
str_contains(cell, part) ==
    /\ cell # NaNPartNumber
    /\ \E s \in 0..(Len(cell) - Len(part)) :
           SubSeq(lower(cell), s + 1, s + Len(part)) = lower(part)

\* full_data[full_data['Part Number'].str.contains(part, case=False, na=False)]
contains_rows(data, part) ==
    LET IsContained(r) == str_contains(r["Part Number"], part)
    IN SelectSeq(data, IsContained)

\* re.compile(part) inside str.contains: of the characters the queried parts
\* are made of, only an unclosed "(" makes the pattern invalid (re.error)
pattern_compiles(part) == \A k \in 1..Len(part) : part[k] # "("

\* the lookup raises when the containment match is reached with such a part
lookup_raises(data, part) ==
    exact_rows(data, part) = <<>> /\ ~pattern_compiles(part)

\* (mutation) the containment match is tried without trying equality first
lookup_rows_contains_only(data, part) == contains_rows(data, part)

\* the exact match first, the containment match only if it is empty
lookup_rows(data, part) ==
    IF exact_rows(data, part) # <<>> THEN exact_rows(data, part)
    ELSE contains_rows(data, part)

\* row = row.iloc[0]  # Get the first match
first_match(rows) == rows[1]

\* The function keeps no list of warnings: it only prints and returns the frame
warnings == <<>>

\* row.get(column_name, "")
row_get(r, column_name) ==
    IF column_name \in DOMAIN r THEN r[column_name] ELSE ""

\* the loop over filled_template["parameter"].items()
fill_required(tpl, r, required_params) ==
    [k \in 1..Len(tpl) |->
        IF tpl[k].parameter # NaN /\ tpl[k].parameter \in DOMAIN required_params
        THEN [tpl[k] EXCEPT !.value = row_get(r, required_params[tpl[k].parameter])]
        ELSE tpl[k]]

\* filled_template.insert(0, 'Part Number', part)
insert_Part_Number_column(frame, part) ==
    [k \in 1..Len(frame) |->
        [PartNumber |-> Join(part), parameter |-> frame[k].parameter,
         unit |-> frame[k].unit, value |-> frame[k].value]]

SelInit ==
    /\ prog = "selective_processor"
    /\ pc = "loop"
    /\ i = 1
    /\ part_numbers \in ListsUpTo(QueriedParts, MaxParts)
    /\ full_data \in ReferenceTables
    /\ test_template \in LoadedTemplates
    /\ output_frames = <<>>
    /\ final_output = NotRun
    /\ row = <<>>
    /\ part_numbers_list = <<>>
    /\ template = NotRun
    /\ all_results = <<>>
    /\ final_result = NotRun
    /\ decoded = NotRun
    /\ parameter_values = NotRun
    /\ output_file = NotRun
    /\ ExtIdle

\* an iteration for a part the reference table has a row for
SelFillPart ==
    /\ prog = "selective_processor"
    /\ pc = "loop"
    /\ i <= Len(part_numbers)
    /\ ~lookup_raises(full_data, part_numbers[i])
    /\ lookup_rows(full_data, part_numbers[i]) # <<>>
    /\ row' = lookup_rows(full_data, part_numbers[i])
    /\ output_frames' =
           Append(output_frames,
                  insert_Part_Number_column(
                      fill_required(test_template,
                                    first_match(lookup_rows(full_data,
                                                            part_numbers[i])),
                                    REQUIRED_PARAMETERS),
                      part_numbers[i]))
    /\ i' = i + 1
    /\ UNCHANGED <<prog, pc, part_numbers, full_data, test_template, final_output>>
    /\ UNCHANGED genVars
    /\ UNCHANGED <<extVars, output_file>>

\* an iteration for a part that is not found: continue
SelSkipPart ==
    /\ prog = "selective_processor"
    /\ pc = "loop"
    /\ i <= Len(part_numbers)
    /\ ~lookup_raises(full_data, part_numbers[i])
    /\ lookup_rows(full_data, part_numbers[i]) = <<>>
    /\ row' = <<>>
    /\ i' = i + 1
    /\ UNCHANGED <<prog, pc, part_numbers, full_data, test_template,
                   output_frames, final_output>>
    /\ UNCHANGED genVars
    /\ UNCHANGED <<extVars, output_file>>

\* an iteration whose containment match raises re.error: nothing in the loop
\* catches it, so get_selected_part_specs ends without returning a frame
SelRaise ==
    /\ prog = "selective_processor"
    /\ pc = "loop"
    /\ i <= Len(part_numbers)
    /\ lookup_raises(full_data, part_numbers[i])
    /\ row' = <<>>
    /\ pc' = "raised"
    /\ UNCHANGED <<prog, i, part_numbers, full_data, test_template,
                   output_frames, final_output>>
    /\ UNCHANGED genVars
    /\ UNCHANGED <<extVars, output_file>>

\* if output_frames: pd.concat(...) else pd.DataFrame()
SelCombine ==
    /\ prog = "selective_processor"
    /\ pc = "loop"
    /\ i > Len(part_numbers)
    /\ final_output' = concat(output_frames)
    /\ pc' = "done"
    /\ UNCHANGED <<prog, i, part_numbers, full_data, test_template,
                   output_frames, row>>
    /\ UNCHANGED genVars
    /\ UNCHANGED <<extVars, output_file>>

SelNext == SelFillPart \/ SelSkipPart \/ SelRaise \/ SelCombine

SpecSel == SelInit /\ [][SelNext]_vars

-----------------------------------------------------------------------------
(* simple_part_filler.py: fill_specifications_from_part_numbers *)

DataMappingNames ==
    {"Specifications", "Resistance", "Maximum Working Voltage", "Tolerance",
     "Operating Temperature", "Package Size", "Rated Power per Element",
     "Temperature Coefficient", "Lead Finish", "Technology"}

\* the dict data_mapping built for one found part
data_mapping(part_number, part_data) ==
    [p \in DataMappingNames |->
        CASE p = "Specifications" -> Join(part_number)
          [] p = "Resistance" -> row_get(part_data, "Resistance")
          [] p = "Maximum Working Voltage" ->
                 row_get(part_data, "Max Working Voltage (V)")
          [] p = "Tolerance" -> row_get(part_data, "Tolerance (%)")
          [] p = "Operating Temperature" -> "-55°C to +155°C"
          [] p = "Package Size" -> row_get(part_data, "EIA Code")
          [] p = "Rated Power per Element" ->
                 row_get(part_data, "Power Rating (W)")
          [] p = "Temperature Coefficient" ->
                 row_get(part_data, "T.C.R. (ppm/°C)")
          [] p = "Lead Finish" -> row_get(part_data, "Termination Material")
          [] p = "Technology" -> "Thick Film"]

\* for idx, param in filled['parameter'].items(): ... filled.at[idx, 'value'] = ...
fill_values(tpl, mapping) ==
    [k \in 1..Len(tpl) |->
        IF tpl[k].parameter # NaN /\ tpl[k].parameter \in DOMAIN mapping
        THEN [tpl[k] EXCEPT !.value = mapping[tpl[k].parameter]]
        ELSE tpl[k]]

separator_block ==
    << TemplateRow("", "", ""),
       TemplateRow("--- Next Part ---", "", ""),
       TemplateRow("", "", "") >>

\* (mutation) the separator is decided by the position in the input list
block_needs_separator_by_index(results, idx) == idx > 1

\* if len(all_results) > 0
block_needs_separator(results, idx) == Len(results) > 0

\* Part numbers given to the filler: two the table may hold, one it never holds
FilledParts ==
    { RK73H2B, RK73H2B \o <<" ","T","D">>, <<"X","Y","Z">> }

SimpleInit ==
    /\ prog = "simple_part_filler"
    /\ pc = "loop"
    /\ i = 1
    /\ part_numbers \in ListsUpTo(FilledParts, MaxParts)
    /\ full_data \in ReferenceTables
    /\ template \in LoadedTemplates
    /\ all_results = <<>>
    /\ final_result = NotRun
    /\ output_file = NotRun
    /\ part_numbers_list = <<>>
    /\ decoded = NotRun
    /\ parameter_values = NotRun
    /\ test_template = <<>>
    /\ output_frames = <<>>
    /\ final_output = NotRun
    /\ row = <<>>
    /\ ExtIdle

\* an iteration for a part with an exactly-equal row
SimpleFillPart ==
    /\ prog = "simple_part_filler"
    /\ pc = "loop"
    /\ i <= Len(part_numbers)
    /\ exact_rows(full_data, part_numbers[i]) # <<>>
    /\ LET part_data == exact_rows(full_data, part_numbers[i])[1]
           filled == fill_values(template,
                                 data_mapping(part_numbers[i], part_data))
       IN all_results' =
              IF block_needs_separator(all_results, i)
              THEN all_results \o <<separator_block, filled>>
              ELSE all_results \o <<filled>>
    /\ i' = i + 1
    /\ UNCHANGED <<prog, pc, part_numbers, full_data, template, final_result,
                   output_file>>
    /\ UNCHANGED <<part_numbers_list, decoded, parameter_values,
                   test_template, output_frames, final_output, row>>
    /\ UNCHANGED extVars

\* an iteration for a part without one: continue
SimpleSkipPart ==
    /\ prog = "simple_part_filler"
    /\ pc = "loop"
    /\ i <= Len(part_numbers)
    /\ exact_rows(full_data, part_numbers[i]) = <<>>
    /\ i' = i + 1
    /\ UNCHANGED <<prog, pc, part_numbers, full_data, template, all_results,
                   final_result, output_file>>
    /\ UNCHANGED <<part_numbers_list, decoded, parameter_values,
                   test_template, output_frames, final_output, row>>
    /\ UNCHANGED extVars

\* if all_results: concat, save and return the file name, else return None
SimpleCombine ==
    /\ prog = "simple_part_filler"
    /\ pc = "loop"
    /\ i > Len(part_numbers)
    /\ IF all_results # <<>>
       THEN /\ final_result' = concat(all_results)
            /\ output_file' = "filled_specifications.xlsx"
       ELSE /\ final_result' = final_result
            /\ output_file' = None
    /\ pc' = "done"
    /\ UNCHANGED <<prog, i, part_numbers, full_data, template, all_results>>
    /\ UNCHANGED <<part_numbers_list, decoded, parameter_values,
                   test_template, output_frames, final_output, row>>
    /\ UNCHANGED extVars

SimpleNext == SimpleFillPart \/ SimpleSkipPart \/ SimpleCombine

SpecSimple == SimpleInit /\ [][SimpleNext]_vars

-----------------------------------------------------------------------------
(* The three template fillers together *)

BatchInit == GenInit \/ SelInit \/ SimpleInit

BatchNext ==
    \/ GenCreateProvider \/ GenProcessPart \/ GenCombine
    \/ SelFillPart \/ SelSkipPart \/ SelRaise \/ SelCombine
    \/ SimpleFillPart \/ SimpleSkipPart \/ SimpleCombine

SpecBatch == BatchInit /\ [][BatchNext]_vars

-----------------------------------------------------------------------------
(* pdf_data_extractor.py: extract_specifications and                       *)
(* extract_electrical_characteristics                                      *)

MaxLines == 2

\* the text every pattern of the two lists ends with: [:\s]+([^\\n]+)

PatternTail ==
    <<"[",":","\\","s","]","+","(","[","^","\\","\\","n","]","+",")">>

Label_Resistance == <<"R","e","s","i","s","t","a","n","c","e">>
Label_Tolerance == <<"T","o","l","e","r","a","n","c","e">>
Label_Power_Rating == <<"P","o","w","e","r"," ","R","a","t","i","n","g">>
Label_Working_Voltage ==
    <<"W","o","r","k","i","n","g"," ","V","o","l","t","a","g","e">>
Label_Temperature_Range ==
    <<"T","e","m","p","e","r","a","t","u","r","e"," ","R","a","n","g","e">>
Label_Temperature_Coefficient ==
    <<"T","e","m","p","e","r","a","t","u","r","e"," ","C","o","e","f","f","i",
      "c","i","e","n","t">>
Label_Package == <<"P","a","c","k","a","g","e">>
Label_Series == <<"S","e","r","i","e","s">>
Label_Resistance_Range ==
    <<"R","e","s","i","s","t","a","n","c","e"," ","R","a","n","g","e">>
Label_Power_Dissipation ==
    <<"P","o","w","e","r"," ","D","i","s","s","i","p","a","t","i","o","n">>
Label_Voltage_Rating ==
    <<"V","o","l","t","a","g","e"," ","R","a","t","i","n","g">>

Pattern(label) == label \o PatternTail

spec_patterns ==
    <<Pattern(Label_Resistance),
      Pattern(Label_Tolerance),
      Pattern(Label_Power_Rating),
      Pattern(Label_Working_Voltage),
      Pattern(Label_Temperature_Range),
      Pattern(Label_Temperature_Coefficient),
      Pattern(Label_Package),
      Pattern(Label_Series)>>

electrical_patterns ==
    <<Pattern(Label_Resistance_Range),
      Pattern(Label_Power_Dissipation),
      Pattern(Label_Voltage_Rating),
      Pattern(Label_Temperature_Coefficient),
      Pattern(Label_Tolerance)>>

\* pattern.split('[')[0]: the pattern up to its first "["
RECURSIVE param_name(_)
param_name(pattern) ==
    IF pattern = <<>> \/ Head(pattern) = "[" THEN <<>>
    ELSE <<Head(pattern)>> \o param_name(Tail(pattern))

\* str.strip(): leading and trailing whitespace removed
RECURSIVE lstrip(_)
lstrip(s) ==
    IF s # <<>> /\ IsSpace(Head(s)) THEN lstrip(Tail(s)) ELSE s

RECURSIVE rstrip(_)
rstrip(s) ==
    IF s # <<>> /\ IsSpace(s[Len(s)])
    THEN rstrip(SubSeq(s, 1, Len(s) - 1))
    ELSE s

strip(s) == rstrip(lstrip(s))

\* the class [:\s]
IsSeparator(c) == c = ":" \/ IsSpace(c)

\* the class [^\\n] of a raw string, under re.IGNORECASE: every character
\* but the backslash, "n" and "N"; a line break is in the class
IsValueChar(c) == c \notin {"\\", "n", "N"}

\* the literal text of a pattern matches at position p, ignoring case
LiteralAt(txt, lit, p) ==
    /\ p + Len(lit) - 1 <= Len(txt)
    /\ lower(SubSeq(txt, p, p + Len(lit) - 1)) = lower(lit)

\* length of the longest run of separator characters that starts at p
SeparatorRun(txt, p) ==
    CHOOSE k \in 0..(Len(txt) + 1 - p) :
        /\ \A j \in p..(p + k - 1) : IsSeparator(txt[j])
        /\ p + k > Len(txt) \/ ~IsSeparator(txt[p + k])

\* length of the longest run of value characters that starts at p
ValueRun(txt, p) ==
    CHOOSE k \in 0..(Len(txt) + 1 - p) :
        /\ \A j \in p..(p + k - 1) : IsValueChar(txt[j])
        /\ p + k > Len(txt) \/ ~IsValueChar(txt[p + k])

Maximum(S) == CHOOSE x \in S : \A y \in S : y <= x

Minimum(S) == CHOOSE x \in S : \A y \in S : x <= y

\* [:\s]+ is greedy and gives characters back until ([^\\n]+) can match:
\* the number of separator characters it keeps at p, 0 when there is no match
SeparatorTaken(txt, p) ==
    LET ok == {k \in 1..SeparatorRun(txt, p) :
                  p + k <= Len(txt) /\ IsValueChar(txt[p + k])}
    IN IF ok = {} THEN 0 ELSE Maximum(ok)

\* the pattern matches with its first character at p
MatchesAt(txt, pattern, p) ==
    /\ LiteralAt(txt, param_name(pattern), p)
    /\ SeparatorTaken(txt, p + Len(param_name(pattern))) > 0

\* that match: where it starts, where its group starts, and the position
\* after its last character
MatchAt(txt, pattern, p) ==
    LET q == p + Len(param_name(pattern))
        v == q + SeparatorTaken(txt, q)
    IN [start |-> p, group |-> v, end |-> v + ValueRun(txt, v)]

\* where re.findall finds its next match when it resumes its scan at from
MatchStarts(txt, pattern, from) ==
    {p \in from..Len(txt) : MatchesAt(txt, pattern, p)}

\* the lines of the text handed to the extractors

Line_Resistance ==
    <<"R","e","s","i","s","t","a","n","c","e",":"," ","1","0","k">>
Line_Tolerance == <<"T","o","l","e","r","a","n","c","e",":"," ","5","%">>
Line_Series == <<"S","e","r","i","e","s",":"," ","T","h","i","n">>
Line_Package == <<"P","a","c","k","a","g","e",":"," ","A","\\","B">>
Line_tolerance_lower == <<"t","o","l","e","r","a","n","c","e"," ","1","%">>
Line_NoLabel == <<"R","K","7","3","H"," ","c","h","i","p">>
Line_Resistance_Range ==
    <<"R","e","s","i","s","t","a","n","c","e"," ","R","a","n","g","e",":"," ",
      "1","-","1","0","M">>
Line_Power_Rating == <<"P","o","w","e","r"," ","R","a","t","i","n","g",":">>

Lines ==
    {Line_Resistance,
     Line_Tolerance,
     Line_Series,
     Line_Package,
     Line_tolerance_lower,
     Line_NoLabel,
     Line_Resistance_Range,
     Line_Power_Rating}

\* '\n'.join(lines)
RECURSIVE join_lines(_)
join_lines(ls) ==
    IF ls = <<>> THEN <<>>
    ELSE IF Len(ls) = 1 THEN ls[1]
    ELSE ls[1] \o <<"\n">> \o join_lines(Tail(ls))

Texts == {join_lines(ls) : ls \in ListsUpTo(Lines, MaxLines)}

ExtractorPrograms ==
    {"extract_specifications", "extract_electrical_characteristics"}

Patterns ==
    IF prog = "extract_specifications" THEN spec_patterns
    ELSE electrical_patterns

\* the dictionary appended for one match; the key of the matched text is
\* 'Value' in extract_specifications and 'Specification' in
\* extract_electrical_characteristics
entry(name, match) ==
    IF prog = "extract_specifications"
    THEN [Parameter |-> Join(name), Value |-> strip(match)]
    ELSE [Parameter |-> Join(name), Specification |-> strip(match)]

append_entry_once(list, e) ==
    IF \E k \in 1..Len(list) : list[k] = e THEN list ELSE Append(list, e)

\* specs.append({...})
append_entry(list, e) == Append(list, e)

ExtInit ==
    /\ prog \in ExtractorPrograms
    /\ pc = "patterns"
    /\ text \in Texts
    /\ rule = 1
    /\ pos = 1
    /\ specs = <<>>
    /\ spans = <<>>
    /\ i = 1
    /\ part_numbers_list = <<>>
    /\ template = NotRun
    /\ all_results = <<>>
    /\ final_result = NotRun
    /\ decoded = NotRun
    /\ parameter_values = NotRun
    /\ part_numbers = <<>>
    /\ full_data = <<>>
    /\ test_template = <<>>
    /\ output_frames = <<>>
    /\ final_output = NotRun
    /\ row = <<>>
    /\ output_file = NotRun

\* the next match of the current pattern, and the entry appended for it
ExtMatch ==
    /\ prog \in ExtractorPrograms
    /\ pc = "patterns"
    /\ rule <= Len(Patterns)
    /\ MatchStarts(text, Patterns[rule], pos) # {}
    /\ LET m == MatchAt(text, Patterns[rule],
                        Minimum(MatchStarts(text, Patterns[rule], pos)))
       IN /\ specs' = append_entry(specs,
                          entry(param_name(Patterns[rule]),
                                SubSeq(text, m.group, m.end - 1)))
          /\ spans' = Append(spans, [rule |-> rule, start |-> m.start,
                                     group |-> m.group, end |-> m.end])
          /\ pos' = m.end
    /\ UNCHANGED <<prog, pc, i, text, rule, output_file>>
    /\ UNCHANGED genVars
    /\ UNCHANGED selVars

\* the current pattern has no further match: on to the next pattern
ExtNextPattern ==
    /\ prog \in ExtractorPrograms
    /\ pc = "patterns"
    /\ rule <= Len(Patterns)
    /\ MatchStarts(text, Patterns[rule], pos) = {}
    /\ rule' = rule + 1
    /\ pos' = 1
    /\ UNCHANGED <<prog, pc, i, text, specs, spans, output_file>>
    /\ UNCHANGED genVars
    /\ UNCHANGED selVars

\* return specs / return characteristics
ExtReturn ==
    /\ prog \in ExtractorPrograms
    /\ pc = "patterns"
    /\ rule > Len(Patterns)
    /\ pc' = "done"
    /\ UNCHANGED <<prog, i, text, rule, pos, specs, spans, output_file>>
    /\ UNCHANGED genVars
    /\ UNCHANGED selVars

ExtNext == ExtMatch \/ ExtNextPattern \/ ExtReturn

SpecExt == ExtInit /\ [][ExtNext]_vars

-----------------------------------------------------------------------------
(* pdf_extractor.py: extract_part_numbers *)

MaxPages == 2

\* part_pattern = r'RK73H[0-9A-Z\s]{10,20}[A-Z]{1,3}'
part_pattern_literal == <<"R","K","7","3","H">>

part_pattern_class_min == 10

part_pattern_class_max == 20

part_pattern_letters_max == 3

\* the class [A-Z]
IsUpperLetter(c) == \E k \in 1..Len(UpperLetters) : UpperLetters[k] = c

\* the class [0-9A-Z\s]
IsPartNumberChar(c) ==
    \/ c \in {"0","1","2","3","4","5","6","7","8","9"}
    \/ IsUpperLetter(c)
    \/ IsSpace(c)

\* length of the longest run of [0-9A-Z\s] that starts at p
PartNumberCharRun(txt, p) ==
    CHOOSE k \in 0..(Len(txt) + 1 - p) :
        /\ \A j \in p..(p + k - 1) : IsPartNumberChar(txt[j])
        /\ p + k > Len(txt) \/ ~IsPartNumberChar(txt[p + k])

\* [0-9A-Z\s]{10,20} is greedy and gives characters back until [A-Z] can
\* match: the number of characters it keeps at p, 0 when there is no match
PartNumberCharsTaken(txt, p) ==
    LET ok == {n \in part_pattern_class_min..part_pattern_class_max :
                  /\ n <= PartNumberCharRun(txt, p)
                  /\ p + n <= Len(txt)
                  /\ IsUpperLetter(txt[p + n])}
    IN IF ok = {} THEN 0 ELSE Maximum(ok)

\* [A-Z]{1,3} is greedy: the number of letters it takes at p
LettersTaken(txt, p) ==
    Maximum({k \in 0..part_pattern_letters_max :
                \A j \in p..(p + k - 1) :
                    j <= Len(txt) /\ IsUpperLetter(txt[j])})

\* part_pattern matches with its first character at p (case matters)
PartMatchesAt(txt, p) ==
    /\ p + Len(part_pattern_literal) - 1 <= Len(txt)
    /\ SubSeq(txt, p, p + Len(part_pattern_literal) - 1) = part_pattern_literal
    /\ PartNumberCharsTaken(txt, p + Len(part_pattern_literal)) > 0

\* that match: where it starts and the position after its last character
PartMatchAt(txt, p) ==
    LET q == p + Len(part_pattern_literal)
        l == q + PartNumberCharsTaken(txt, q)
    IN [start |-> p, end |-> l + LettersTaken(txt, l)]

PartMatchStarts(txt, from) == {p \in from..Len(txt) : PartMatchesAt(txt, p)}

\* re.sub(r'\s+', ' ', s): every whitespace run replaced by one space
RECURSIVE re_sub_ws_space(_)
re_sub_ws_space(s) ==
    IF s = <<>> THEN <<>>
    ELSE IF IsSpace(Head(s)) THEN <<" ">> \o re_sub_ws_space(lstrip(s))
    ELSE <<Head(s)>> \o re_sub_ws_space(Tail(s))

\* clean_part = re.sub(r'\s+', ' ', match.strip())
clean_part_of(match) == re_sub_ws_space(strip(match))

append_always(list, cleaned) == Append(list, cleaned)

\* if clean_part not in part_numbers: part_numbers.append(clean_part)
append_if_new(list, cleaned) ==
    IF \E k \in 1..Len(list) : list[k] = cleaned THEN list
    ELSE Append(list, cleaned)

\* the text of the pages that have any (extract_pdf_data keeps those)

Page_Part ==
    <<"R","K","7","3","H","2","B"," ","T","T","D"," ","1","0","0","3","F",
      ".">>
Page_Part_TwoSpaces ==
    <<"R","K","7","3","H","2","B"," "," ","T","T","D"," ","1","0","0","3","F",
      ".">>
Page_Part_LineBreak ==
    <<"R","K","7","3","H","2","B","\n","T","T","D","\t","1","0","0","3","F",
      ";">>
Page_OtherPart ==
    <<"R","K","7","3","H","1","J"," ","T","T","D"," ","4","7","0","1","F",
      ".">>
Page_Part_Open ==
    <<"R","K","7","3","H","2","B"," ","T","T","D"," ","1","0","0","3","F">>
Page_LowerCase ==
    <<"r","k","7","3","h","2","b"," ","t","t","d"," ","1","0","0","3","f">>
Page_TwoParts ==
    <<"s","e","e"," ","R","K","7","3","H","1","J"," ","T","T","D"," ","4","7",
      "0","1","F",","," ","a","n","d"," ","R","K","7","3","H","2","B"," ","T",
      "T","D"," ","1","0","0","3","F",".">>

PageTexts ==
    {Page_Part,
     Page_Part_TwoSpaces,
     Page_Part_LineBreak,
     Page_OtherPart,
     Page_Part_Open,
     Page_LowerCase,
     Page_TwoParts}

\* ' '.join([item['text'] for item in extracted_data['text_content']])
RECURSIVE join_pages(_)
join_pages(ps) ==
    IF ps = <<>> THEN <<>>
    ELSE IF Len(ps) = 1 THEN ps[1]
    ELSE ps[1] \o <<" ">> \o join_pages(Tail(ps))

AllTexts == {join_pages(ps) : ps \in ListsUpTo(PageTexts, MaxPages)}

PartsInit ==
    /\ prog = "pdf_extractor"
    /\ pc = "matches"
    /\ text \in AllTexts
    /\ part_numbers = <<>>
    /\ pos = 1
    /\ spans = <<>>
    /\ rule = 0
    /\ specs = <<>>
    /\ i = 1
    /\ part_numbers_list = <<>>
    /\ template = NotRun
    /\ all_results = <<>>
    /\ final_result = NotRun
    /\ decoded = NotRun
    /\ parameter_values = NotRun
    /\ full_data = <<>>
    /\ test_template = <<>>
    /\ output_frames = <<>>
    /\ final_output = NotRun
    /\ row = <<>>
    /\ output_file = NotRun

\* the next match of part_pattern, cleaned and appended unless already there
PartsMatch ==
    /\ prog = "pdf_extractor"
    /\ pc = "matches"
    /\ PartMatchStarts(text, pos) # {}
    /\ LET m == PartMatchAt(text, Minimum(PartMatchStarts(text, pos)))
       IN /\ part_numbers' =
                 append_if_new(part_numbers,
                               clean_part_of(SubSeq(text, m.start, m.end - 1)))
          /\ spans' = Append(spans, m)
          /\ pos' = m.end
    /\ UNCHANGED <<prog, pc, i, text, rule, specs, output_file>>
    /\ UNCHANGED genVars
    /\ UNCHANGED <<full_data, test_template, output_frames, final_output, row>>

\* no further match: return part_numbers
PartsReturn ==
    /\ prog = "pdf_extractor"
    /\ pc = "matches"
    /\ PartMatchStarts(text, pos) = {}
    /\ pc' = "done"
    /\ UNCHANGED <<prog, i, output_file>>
    /\ UNCHANGED extVars
    /\ UNCHANGED genVars
    /\ UNCHANGED selVars

PartsNext == PartsMatch \/ PartsReturn

SpecParts == PartsInit /\ [][PartsNext]_vars

-----------------------------------------------------------------------------
(* Notions of the specification used to state the properties *)

GenRunning == prog = "rk73h_datasheet_generator"

\* a part has been processed: decoded and parameter_values belong to it
GenProcessed == GenRunning /\ i > 1

LastPart == part_numbers_list[i - 1]

\* the whitespace-separated tokens of the uppercased part number
Tokens(part_number) == split(upper(part_number))

HasSeriesPrefix(part_number) ==
    Tokens(part_number) # <<>> /\ startswith(Tokens(part_number)[1], SeriesPrefix)

Digits == <<"0","1","2","3","4","5","6","7","8","9">>

IsDigit(c) == \E d \in 1..Len(Digits) : Digits[d] = c

DigitValue(c) == (CHOOSE d \in 1..Len(Digits) : Digits[d] = c) - 1

\* 3 or 4 characters, all digits
IsDigitCode(code) ==
    Len(code) \in 3..4 /\ \A k \in 1..Len(code) : IsDigit(code[k])

\* 3 or 4 characters, digits except for at most one "R"
IsValidCode(code) ==
    /\ Len(code) \in 3..4
    /\ \A k \in 1..Len(code) : IsDigit(code[k]) \/ code[k] = "R"
    /\ Cardinality({k \in 1..Len(code) : code[k] = "R"}) <= 1

RECURSIVE NumberOf(_)
NumberOf(ds) ==
    IF ds = <<>> THEN 0
    ELSE 10 * NumberOf(SubSeq(ds, 1, Len(ds) - 1)) + DigitValue(ds[Len(ds)])

RECURSIVE Pow10(_)
Pow10(n) == IF n = 0 THEN 1 ELSE 10 * Pow10(n - 1)

\* (all digits but the last) x 10^(last digit), in ohms
OhmsOf(code) ==
    NumberOf(SubSeq(code, 1, Len(code) - 1)) * Pow10(DigitValue(code[Len(code)]))

RECURSIVE NatStr(_)
NatStr(n) ==
    IF n < 10 THEN Digits[n + 1] ELSE NatStr(n \div 10) \o Digits[(n % 10) + 1]

\* the decimals of rest/unit, without trailing zeros
RECURSIVE Decimals(_, _)
Decimals(rest, unit) ==
    IF rest = 0 THEN ""
    ELSE Digits[((rest * 10) \div unit) + 1] \o Decimals((rest * 10) % unit, unit)

Scaled(v, unit) ==
    NatStr(v \div unit)
        \o (IF v % unit = 0 THEN "" ELSE "." \o Decimals(v % unit, unit))

\* the ohmic value with its unit prefix: 10000 -> 10kΩ, 4730 -> 4.73kΩ
DisplayOhms(v) ==
    IF v >= 1000000 THEN Scaled(v, 1000000) \o "MΩ"
    ELSE IF v >= 1000 THEN Scaled(v, 1000) \o "kΩ"
    ELSE NatStr(v) \o "Ω"

-----------------------------------------------------------------------------
(* Properties of rk73h_datasheet_generator.py *)

\* C1: filling the template for "RK73H2B TD 1003 FT" yields Package Size
\* "1206", Rated Power "0.25W" and Resistance "100kΩ".
C1_EndToEnd ==
    (GenProcessed /\ LastPart = RK73H2B \o TD_1003_FT) =>
        /\ parameter_values["Package Size"] = "1206"
        /\ parameter_values["Rated Power per Element"] = "0.25W"
        /\ parameter_values["Resistance"] = "100kΩ"

\* C2: a part number that does not start with the series prefix contributes
\* no rows to the batch result and is never decoded as series RK73H.
C2_UnrecognizedSkipped ==
    /\ (GenRunning /\ pc = "done") =>
           \A k \in 1..Len(part_numbers_list) :
               ~HasSeriesPrefix(part_numbers_list[k]) =>
                   \A r \in 1..Len(final_result) :
                       final_result[r].Part_Number # Join(part_numbers_list[k])
    /\ (GenProcessed /\ ~HasSeriesPrefix(LastPart)) => decoded.series # "RK73H"

\* C3: for N >= 1 parts and a template of L rows the batch result has exactly
\* N*L + (N-1) rows: the L template rows of each part in input order, tagged
\* with the part, and one separator row between consecutive parts only.
C3_RowCount ==
    (GenRunning /\ pc = "done" /\ Len(part_numbers_list) >= 1) =>
        LET N == Len(part_numbers_list)
            L == Len(template)
        IN /\ Len(final_result) = N * L + (N - 1)
           /\ \A k \in 1..N : \A j \in 1..L :
                  /\ (k - 1) * (L + 1) + j <= Len(final_result)
                  /\ final_result[(k - 1) * (L + 1) + j].Part_Number
                         = Join(part_numbers_list[k])
                  /\ final_result[(k - 1) * (L + 1) + j].parameter
                         = template[j].parameter
           /\ \A k \in 1..(N - 1) :
                  /\ k * (L + 1) <= Len(final_result)
                  /\ final_result[k * (L + 1)] = separator[1]

C3_Witness ==
    /\ GenRunning /\ pc = "done"
    /\ Len(part_numbers_list) >= 2
    /\ Len(template) = 4
    /\ Len(final_result) = Len(part_numbers_list) * 4 + Len(part_numbers_list) - 1
    /\ final_result[5] = separator[1]

\* C4: the series-and-size token alone decodes without error to the size code
\* made of the two characters after the five-character series prefix, the
\* other segments staying empty.
C4_SizeCodeAlone ==
    (GenProcessed /\ HasSeriesPrefix(LastPart)) =>
        LET tokens == Tokens(LastPart)
        IN /\ Len(tokens[1]) >= 7 =>
                  decoded.size_code = Join(SubSeq(tokens[1], 6, 7))
           /\ Len(tokens) = 1 =>
                  /\ decoded.resistance_code = ""
                  /\ decoded.tolerance_code = ""

\* C5: for a part number with the series prefix and four tokens, the third
\* token is the resistance code and the first character of the fourth token
\* is the tolerance code.
C5_TokensDecoded ==
    (GenProcessed /\ HasSeriesPrefix(LastPart) /\ Len(Tokens(LastPart)) = 4) =>
        /\ decoded.resistance_code = Join(Tokens(LastPart)[3])
        /\ decoded.tolerance_code = Tokens(LastPart)[4][1]

\* C6: for a part carrying a resistance code of 3 or 4 digits, the Resistance
\* value is (all digits but the last) x 10^(last digit) ohms, displayed with
\* its unit prefix, whether or not the code is listed in a table.
C6_ResistanceFromCode ==
    (/\ GenProcessed
     /\ HasSeriesPrefix(LastPart)
     /\ Len(Tokens(LastPart)) = 4
     /\ IsDigitCode(Tokens(LastPart)[3])) =>
        parameter_values["Resistance"]
            = DisplayOhms(OhmsOf(Tokens(LastPart)[3]))

\* the same part number with a valid resistance code in place of its own
WithValidCode(part_number) ==
    LET t == Tokens(part_number)
    IN t[1] \o <<" ">> \o t[2] \o <<" ","1","0","0","3"," ">> \o t[4]

\* C7: a part whose resistance segment is invalid gets Resistance "unknown",
\* and every other attribute as for the same part with a valid code.
C7_InvalidResistanceUnknown ==
    (/\ GenProcessed
     /\ HasSeriesPrefix(LastPart)
     /\ Len(Tokens(LastPart)) = 4
     /\ ~IsValidCode(Tokens(LastPart)[3])) =>
        /\ parameter_values["Resistance"] = "unknown"
        /\ \A p \in DOMAIN parameter_values \ {"Resistance", "Specifications"} :
               parameter_values[p]
                   = build_parameter_values(
                         WithValidCode(LastPart),
                         decode_part_number(WithValidCode(LastPart)))[p]

\* C8: an attribute that no source resolves has the value "unknown", not an
\* empty string and not a hardcoded default.
C8_UnresolvedIsUnknown ==
    GenProcessed =>
        /\ decoded.size_code \notin DOMAIN size_mapping =>
               /\ parameter_values["Package Size"] = "unknown"
               /\ parameter_values["Rated Power per Element"] = "unknown"
        /\ decoded.resistance_code \notin DOMAIN resistance_codes =>
               parameter_values["Resistance"] = "unknown"
        /\ decoded.tolerance_code = "" =>
               parameter_values["Tolerance"] = "unknown"
        /\ parameter_values["Maximum Working Voltage"] = "unknown"
        /\ parameter_values["Temperature Coefficient"] = "unknown"

\* C9: the attribute set built for a part has every name of the fixed
\* attribute set (the parameters of the default template) as a key, with a
\* string as its value, never None or a missing cell.
C9_AllAttributesPresent ==
    GenProcessed =>
        \A r \in 1..Len(create_default_template) :
            /\ create_default_template[r].parameter \in DOMAIN parameter_values
            /\ parameter_values[create_default_template[r].parameter]
                   \notin {None, NaN}

\* a part whose size code and resistance code both resolve to nothing
C9_Witness ==
    /\ GenProcessed
    /\ decoded.size_code \notin DOMAIN size_mapping
    /\ decoded.resistance_code \notin DOMAIN resistance_codes
    /\ DOMAIN parameter_values = ParameterNames
    /\ parameter_values["Package Size"] = ""
    /\ parameter_values["Resistance"] = "See datasheet"

-----------------------------------------------------------------------------
(* Properties of selective_processor.py *)

SelProcessed == prog = "selective_processor" /\ i > 1

LastQueried == part_numbers[i - 1]

HasExactRow(data, part) ==
    \E k \in 1..Len(data) : data[k]["Part Number"] = part

\* C10: whenever the reference table has a row whose Part Number equals the
\* queried part, the values filled come from an exactly-equal row; a row that
\* only contains the query is used when no exactly-equal row exists.
C10_ExactMatchFirst ==
    (SelProcessed /\ row # <<>>) =>
        /\ HasExactRow(full_data, LastQueried) =>
               /\ row[1]["Part Number"] = LastQueried
               /\ output_frames[Len(output_frames)]
                      = insert_Part_Number_column(
                            fill_required(test_template, row[1],
                                          REQUIRED_PARAMETERS),
                            LastQueried)
        /\ row[1]["Part Number"] # LastQueried =>
               /\ ~HasExactRow(full_data, LastQueried)
               /\ str_contains(row[1]["Part Number"], LastQueried)

\* the exact row comes after a row that contains the query, and is the one used
C10_Witness ==
    /\ SelProcessed
    /\ Len(full_data) >= 2
    /\ full_data[1]["Part Number"] # LastQueried
    /\ str_contains(full_data[1]["Part Number"], LastQueried)
    /\ full_data[2]["Part Number"] = LastQueried
    /\ row # <<>>
    /\ row[1] = full_data[2]
    /\ \E k \in 1..Len(test_template) :
           /\ test_template[k].parameter = "Resistance"
           /\ output_frames[Len(output_frames)][k].value = "Resistance of row 2"

\* the part's containment match is reached and finds more than one row
IsAmbiguous(data, part) ==
    /\ ~HasExactRow(data, part)
    /\ pattern_compiles(part)
    /\ Cardinality({k \in 1..Len(data) : str_contains(data[k]["Part Number"], part)}) > 1

\* the first row in table order whose Part Number contains the part
FirstContaining(data, part) ==
    data[CHOOSE k \in 1..Len(data) :
            /\ str_contains(data[k]["Part Number"], part)
            /\ \A j \in 1..(k - 1) : ~str_contains(data[j]["Part Number"], part)]

LastFrame == output_frames[Len(output_frames)]

\* the batch went on after an ambiguous part: in the frame returned, every
\* such part has its rows
AmbiguousPartsEmitted ==
    pc = "done" =>
        \A k \in 1..Len(part_numbers) :
            IsAmbiguous(full_data, part_numbers[k]) =>
                \E r \in 1..Len(final_output) :
                    final_output[r].PartNumber = Join(part_numbers[k])

\* C11: when the containment match finds more than one row, the
\* first in table order is used, the part is recorded in a warning list, and
\* the batch goes on.
C11_AmbiguousWarned ==
    (SelProcessed /\ IsAmbiguous(full_data, LastQueried)) =>
        /\ LastFrame
               = insert_Part_Number_column(
                     fill_required(test_template,
                                   FirstContaining(full_data, LastQueried),
                                   REQUIRED_PARAMETERS),
                     LastQueried)
        /\ \E w \in 1..Len(warnings) : warnings[w] = LastQueried
        /\ AmbiguousPartsEmitted

\* the frames of a list of results that are not separator blocks
FilledFrames(results) ==
    LET IsFilled(f) == f # separator_block
    IN SelectSeq(results, IsFilled)

PartsWithExactRow ==
    LET IsHeld(p) == HasExactRow(full_data, p)
    IN SelectSeq(part_numbers, IsHeld)

\* C12: a part without any match in the reference table still
\* appears in the batch output with its template rows.
C12_UnmatchedStillEmitted ==
    /\ (prog = "selective_processor" /\ pc = "done") =>
           \A k \in 1..Len(part_numbers) :
               \E r \in 1..Len(final_output) :
                   final_output[r].PartNumber = Join(part_numbers[k])
    /\ (prog = "simple_part_filler" /\ pc = "done") =>
           Len(FilledFrames(all_results)) = Len(part_numbers)

\* the lookup of the part ends without an exception and finds a row
IsResolvable(data, part) ==
    ~lookup_raises(data, part) /\ lookup_rows(data, part) # <<>>

ResolvableParts ==
    LET IsFound(p) == IsResolvable(full_data, p)
    IN SelectSeq(part_numbers, IsFound)

\* C13: a failing part never aborts the batch: when the batch function ends,
\* every part that can be resolved has its block of rows in the output, the
\* blocks in the order of the input list.
C13_FailureIsLocal ==
    (prog = "selective_processor" /\ pc \in {"done", "raised"}) =>
        /\ pc = "done"
        /\ Len(final_output) = Len(ResolvableParts) * Len(test_template)
        /\ \A j \in 1..Len(ResolvableParts) : \A r \in 1..Len(test_template) :
               final_output[(j - 1) * Len(test_template) + r].PartNumber
                   = Join(ResolvableParts[j])

-----------------------------------------------------------------------------
(* Properties of the template fillers *)

\* C16: the filled template of a part has exactly the template's rows, in the
\* template's order, with parameter and unit unchanged; a row whose parameter
\* is missing or is no mapped name is emitted with its empty value.
C16_TemplateRowsKept ==
    /\ GenProcessed =>
           LET filled == all_results[Len(all_results)]
           IN /\ Len(filled) = Len(template)
              /\ \A k \in 1..Len(template) :
                     /\ filled[k].parameter = template[k].parameter
                     /\ filled[k].unit = template[k].unit
                     /\ (template[k].parameter = NaN
                             \/ template[k].parameter \notin ParameterNames) =>
                            /\ filled[k].value = template[k].value
                            /\ filled[k].value \in {"", NaN}
    /\ (SelProcessed /\ row # <<>>) =>
           /\ Len(LastFrame) = Len(test_template)
           /\ \A k \in 1..Len(test_template) :
                  /\ LastFrame[k].parameter = test_template[k].parameter
                  /\ LastFrame[k].unit = test_template[k].unit
                  /\ (test_template[k].parameter = NaN
                          \/ test_template[k].parameter
                                 \notin DOMAIN REQUIRED_PARAMETERS) =>
                         /\ LastFrame[k].value = test_template[k].value
                         /\ LastFrame[k].value \in {"", NaN}

\* a template with a blank parameter and an unmapped name has been filled
C16_Witness ==
    /\ GenProcessed
    /\ Len(template) = 4
    /\ template[2].parameter = NaN
    /\ template[3].parameter = "Weight"
    /\ all_results[Len(all_results)][2].value = NaN
    /\ all_results[Len(all_results)][3].value = NaN
    /\ all_results[Len(all_results)][1].value = "See datasheet"

\* the part number uppercased, every whitespace run made one space
RECURSIVE CollapseWhitespace(_)
CollapseWhitespace(s) ==
    IF s = <<>> THEN <<>>
    ELSE IF IsSpace(Head(s))
         THEN IF Len(s) > 1 /\ IsSpace(s[2])
              THEN CollapseWhitespace(Tail(s))
              ELSE <<" ">> \o CollapseWhitespace(Tail(s))
         ELSE <<Head(s)>> \o CollapseWhitespace(Tail(s))

Normalize(part_number) == CollapseWhitespace(upper(part_number))

\* C17: decoding the normalized form of a part number gives the same
\* segments as decoding the part number itself.
C17_DecodeOfNormalized ==
    GenProcessed => decode_part_number(Normalize(LastPart)) = decoded

\* a part number that its normalization changes, decoded with a size code
C17_Witness ==
    /\ GenProcessed
    /\ Normalize(LastPart) # LastPart
    /\ decoded.size_code = "2B"
    /\ decode_part_number(Normalize(LastPart)).size_code = "2B"

\* C18: filling the template for a part never modifies the template the
\* batch holds, and every part's rows are the original template filled for
\* that part alone.
C18_TemplateNotModified ==
    /\ [][/\ (pc = "loop" => template' = template)
          /\ test_template' = test_template]_vars
    /\ [](GenProcessed =>
             \A k \in 1..(i - 1) :
                 all_results[2 * k - 1]
                     = insert_Part_Number(
                           fill_template_with_part_data(part_numbers_list[k],
                                                        template),
                           part_numbers_list[k]))

\* two parts have been filled and the provider's template still has no value
C18_Witness ==
    /\ GenRunning
    /\ i > 2
    /\ template = create_default_template
    /\ all_results[1][1].value # all_results[3][1].value
    /\ \A k \in 1..Len(template) : template[k].value = ""

-----------------------------------------------------------------------------
(* Properties of simple_part_filler.py *)

\* C19: with k input parts that have an exactly-equal row and a template of L
\* rows, the combined result has k*L + 3*(k-1) rows, a block of three
\* separator rows between consecutive found parts only; with k = 0 nothing is
\* combined and None is returned.
C19_RowsAndSeparators ==
    (prog = "simple_part_filler" /\ pc = "done") =>
        LET k == Len(PartsWithExactRow)
            L == Len(template)
        IN /\ k = 0 => (output_file = None /\ final_result = NotRun)
           /\ k >= 1 =>
                  /\ output_file = "filled_specifications.xlsx"
                  /\ Len(final_result) = k * L + 3 * (k - 1)
                  /\ \A j \in 1..k : \A r \in 1..L :
                         final_result[(j - 1) * (L + 3) + r].parameter
                             = template[r].parameter
                  /\ \A j \in 1..(k - 1) :
                         SubSeq(final_result, j * (L + 3) - 2, j * (L + 3))
                             = separator_block

\* a part that is not found, before a part that is
C19_Witness ==
    /\ prog = "simple_part_filler" /\ pc = "done"
    /\ Len(part_numbers) >= 2
    /\ ~HasExactRow(full_data, part_numbers[1])
    /\ Len(PartsWithExactRow) >= 1
    /\ output_file = "filled_specifications.xlsx"
    /\ final_result[1].parameter = template[1].parameter

-----------------------------------------------------------------------------
(* The extractors *)

ExtRunning == prog \in ExtractorPrograms

ExtDone == ExtRunning /\ pc = "done"

\* the matched text kept in an entry
captured(e) ==
    IF prog = "extract_specifications" THEN e.Value ELSE e.Specification

\* the 1-based indices of the entries made for the pattern r
EntriesOf(r) == {k \in 1..Len(spans) : spans[k].rule = r}

\* C14: the list returned has one entry for every match of every pattern,
\* none dropped as a duplicate; the entries are in the order of the patterns
\* and, for one pattern, in the order of the matches in the text; a pattern
\* without a match has no entry and the function still returns.
C14_OneEntryPerMatch ==
    ExtDone =>
        /\ Len(specs) = Len(spans)
        /\ \A k \in 1..Len(spans) :
              /\ MatchesAt(text, Patterns[spans[k].rule], spans[k].start)
              /\ specs[k].Parameter = Join(param_name(Patterns[spans[k].rule]))
              /\ captured(specs[k]) =
                     strip(SubSeq(text, spans[k].group, spans[k].end - 1))
        /\ \A k, l \in 1..Len(spans) :
              k < l =>
                  \/ spans[k].rule < spans[l].rule
                  \/ /\ spans[k].rule = spans[l].rule
                     /\ spans[k].end <= spans[l].start
        /\ \A r \in 1..Len(Patterns) :
              /\ \A p \in 1..Len(text) :
                    MatchesAt(text, Patterns[r], p) =>
                        \E k \in EntriesOf(r) :
                            spans[k].start <= p /\ p < spans[k].end
              /\ (\A p \in 1..Len(text) : ~MatchesAt(text, Patterns[r], p))
                     => EntriesOf(r) = {}

\* a text where one pattern matches twice with the same value and another
\* pattern does not match at all
C14_Witness ==
    /\ ExtDone
    /\ \E k, l \in 1..Len(specs) : k < l /\ specs[k] = specs[l]
    /\ \E r \in 1..Len(Patterns) : EntriesOf(r) = {}

\* the position of the line break that ends the line p is in, or the
\* position after the last character of the text
RECURSIVE LineEnd(_, _)
LineEnd(txt, p) ==
    IF p > Len(txt) \/ txt[p] = "\n" THEN p ELSE LineEnd(txt, p + 1)

\* the text after the label and its separator, up to the end of the line
RestOfLine(txt, pattern, start) ==
    LET q == start + Len(param_name(pattern))
        v == q + SeparatorRun(txt, q)
    IN SubSeq(txt, v, LineEnd(txt, v) - 1)

\* C15: each value captured is the text after the label and its separator
\* up to the end of that line: it has no line break in it and is not cut
\* before the end of the line by an "n" or a backslash.
C15_ValueIsRestOfLine ==
    ExtRunning =>
        \A k \in 1..Len(specs) :
            /\ \A c \in 1..Len(captured(specs[k])) :
                  captured(specs[k])[c] # "\n"
            /\ captured(specs[k]) =
                   strip(RestOfLine(text, Patterns[spans[k].rule],
                                    spans[k].start))

PartsDone == prog = "pdf_extractor" /\ pc = "done"

\* the whitespace-separated words of s with one space between them
RECURSIVE JoinWords(_)
JoinWords(ws) ==
    IF ws = <<>> THEN <<>>
    ELSE IF Len(ws) = 1 THEN ws[1]
    ELSE ws[1] \o <<" ">> \o JoinWords(Tail(ws))

SingleSpaced(s) == JoinWords(split(s))

\* the text of the k-th match of the part number pattern
MatchText(k) == SubSeq(text, spans[k].start, spans[k].end - 1)

\* the first match whose single-spaced form is the entry e
FirstOccurrence(e) ==
    Minimum({k \in 1..Len(spans) : SingleSpaced(MatchText(k)) = e})

\* C20: the list of part numbers has no duplicates; no entry begins or ends
\* with whitespace and every whitespace run inside an entry is one space;
\* the entries are in the order of their first occurrence in the text; and
\* matches that differ only in whitespace have one entry between them.
C20_PartNumbersClean ==
    PartsDone =>
        /\ \A k, l \in 1..Len(part_numbers) :
              part_numbers[k] = part_numbers[l] => k = l
        /\ \A k \in 1..Len(part_numbers) :
              LET e == part_numbers[k]
              IN /\ e # <<>>
                 /\ ~IsSpace(e[1]) /\ ~IsSpace(e[Len(e)])
                 /\ \A c \in 1..Len(e) : IsSpace(e[c]) => e[c] = " "
                 /\ \A c \in 1..(Len(e) - 1) :
                       ~(IsSpace(e[c]) /\ IsSpace(e[c + 1]))
                 /\ \E m \in 1..Len(spans) : SingleSpaced(MatchText(m)) = e
        /\ \A k, l \in 1..Len(part_numbers) :
              k < l => FirstOccurrence(part_numbers[k])
                           < FirstOccurrence(part_numbers[l])
        /\ \A m \in 1..Len(spans) :
              Cardinality({k \in 1..Len(part_numbers) :
                              part_numbers[k] = SingleSpaced(MatchText(m))}) = 1

\* a text with two matches that differ only in whitespace, and a match of
\* another part number after them
C20_Witness ==
    /\ PartsDone
    /\ \E m, n \in 1..Len(spans) :
          /\ m < n
          /\ MatchText(m) # MatchText(n)
          /\ SingleSpaced(MatchText(m)) = SingleSpaced(MatchText(n))
    /\ Len(part_numbers) >= 2

====
